---- MODULE Spec2Model ----
(***************************************************************************)
(* Worker orchestration of backend-quikscribe: DockerContainerManager      *)
(* (dynamic port allocation, container tracking, reconciliation) and the   *)
(* FastAPI routes that drive it and persist User_google_meeting_data rows. *)
(*                                                                         *)
(* Every request is a thread of control with a position (pc) and locals.   *)
(* A handler is cut into steps at the places where it waits on I/O (the    *)
(* host-port probe, a Docker engine call, a log write, the awaited HTTP    *)
(* call).  Spec lets the steps of different requests interleave freely, as *)
(* the threads of test_dynamic_ports.py do.  SpecSerial is the scheduling  *)
(* of the FastAPI event loop: the handlers are `async def` and call the    *)
(* manager synchronously, so a request runs alone except while it awaits   *)
(* the worker's HTTP response in pause/resume.                             *)
(***************************************************************************)
EXTENDS Integers, FiniteSets, Sequences, TLC

\* ------------------------------------------------------------------ bounds
NumPorts == 2
MaxContainers == 2
NumThreads == 2
NumUsers == 2
\* the number of requests a behaviour issues
MaxRequests == 4
\* the first eight characters of a uuid and the rest: how many of each
NumHeads == 2
NumTails == 2
\* the largest count of a batch (the route allows 1..100)
MaxBatch == 2

\* port_range = (3001, 3999); the model keeps the lower end and NumPorts ports
PortLo == 3001
PortHi == PortLo + NumPorts - 1
Ports == PortLo..PortHi

Cids == 1..MaxContainers
Threads == 1..NumThreads
Users == 1..NumUsers

\* Python's None for a port or a container id
None == 0

VARIABLES
    used_ports,     \* DockerContainerManager.used_ports
    container_map,  \* DockerContainerManager.container_map: container id -> info
    engine,         \* the Docker engine: per container id its state and host port
    meetings,       \* table user_google_meeting_data: meeting id -> row
    thr,            \* the requests in progress: position and locals
    reply,          \* what the step just taken returned to its caller, if it returned
    releases,       \* history: how often a worker's port was discarded on its behalf
    started,        \* the number of requests issued so far
    event_loop,     \* TRUE: the requests are handlers of one asyncio event loop
    pod,            \* the pod of the Kubernetes Job that POST /k8s/meeting created
    docker_manager, \* routes.docker_manager: None, or the n-th manager constructed
    jobs            \* the Jobs of the namespace: job name -> uuid and creating request

vars ==
    <<used_ports, container_map, engine, meetings, thr, reply, releases, started,
      event_loop, pod, docker_manager, jobs>>

\* ----------------------------------------------------------------- helpers
Idle ==
    [pc |-> "idle", op |-> "none", user |-> None, cid |-> None, port |-> None,
     set |-> {}, n |-> 0, k |-> 0, resp |-> "none", asked |-> 0, req |-> 0,
     created |-> << >>]

NoReply ==
    [op |-> "none", ret |-> "none", user |-> None, cid |-> None, port |-> None,
     n |-> 0, removed |-> 0, docker_status |-> "none", uuid |-> << >>,
     req |-> 0, asked |-> 0, tried |-> 0, jobs |-> << >>]

\* thread t is scheduled: on the event loop a handler runs alone until it
\* returns or awaits
Runs(t) ==
    event_loop => \A o \in Threads \ {t} : thr[o].pc \in {"idle", "awaiting"}

\* a request arrives and thread t takes it
Arrives(t) ==
    /\ thr[t].pc = "idle"
    /\ Runs(t)
    /\ started < MaxRequests
    /\ started' = started + 1
    /\ event_loop' = event_loop

\* a request to the Docker-backed routes arrives and thread t takes it
Begins(t) ==
    /\ Arrives(t)
    /\ pod' = pod
    /\ docker_manager' = docker_manager
    /\ jobs' = jobs

\* thread t goes on from position pc
At(t, pc) ==
    /\ thr[t].pc = pc
    /\ Runs(t)
    /\ UNCHANGED <<started, event_loop, pod, docker_manager, jobs>>

\* the request of thread t goes on, at r
Goto(t, r) == thr' = [thr EXCEPT ![t] = r] /\ reply' = NoReply

\* the request of thread t ends: its caller gets ret (and the count n)
Finish(t, op, ret, cid, port) ==
    /\ thr' = [thr EXCEPT ![t] = Idle]
    /\ reply' = [NoReply EXCEPT !.op = op, !.ret = ret, !.cid = cid, !.port = port]

\* the request of thread t on meeting m ends: the caller u (current_user) gets ret
Answer(t, op, ret, u, m, port) ==
    /\ thr' = [thr EXCEPT ![t] = Idle]
    /\ reply' = [NoReply EXCEPT !.op = op, !.ret = ret, !.user = u, !.cid = m,
                                !.port = port]

\* dict[key] = value, del dict[key]
DictPut(d, k, v) == [x \in DOMAIN d \cup {k} |-> IF x = k THEN v ELSE d[x]]
DictDel(d, k) == [x \in DOMAIN d \ {k} |-> d[x]]

Min(S) == CHOOSE x \in S : \A y \in S : x <= y

\* what client.containers.get(c).status can give: the engine's state of a
\* container it knows, or an exception ("error": NotFound for a container it
\* does not know, and at any time an APIError or an unreachable daemon)
InspectOutcomes(c) ==
    {"error"} \cup (IF engine[c].state \in {"running", "exited"}
                    THEN {engine[c].state} ELSE {})

\* the next container id the engine hands out
Fresh == {c \in Cids : engine[c].state = "none"}

CountRelease(c) == [releases EXCEPT ![c] = IF @ < 2 THEN @ + 1 ELSE @]

\* ------------------------------------------------- get_available_port
\* a scan that trusts the probe alone
AvailablePortsByProbeOnly(used, busy) == {p \in Ports : p \notin busy}

\* a scan that runs one port past the end of port_range
ScanRangePastEnd == PortLo..(PortHi + 1)

\* range(self.port_range[0], self.port_range[1] + 1)
ScanRange == Ports

\* the ports that pass `port not in self.used_ports` and whose probe
\* (connect_ex != 0) reports nothing listening; busy is what the host reports
AvailablePorts(used, busy) ==
    {p \in ScanRange : p \notin used /\ p \notin busy}

\* self.used_ports.add(chosen_port)
Claim(used, p) == used \cup {p}

\* set.remove in place of set.discard: a KeyError for a port that is free,
\* shown as the set holding None only
RemoveOrKeyError(used, p) == IF p \in used THEN used \ {p} ELSE {None}

\* self.used_ports.discard(port)
Discard(used, p) == used \ {p}

\* ------------------------------------------------------------ start
\* POST /meeting-url -> start_meeting_bot -> get_available_port: the scan
\* over the range with one probe per unclaimed port, then random.choice.
\* An empty candidate list raises before dynamic_port is bound, so the
\* except clause discards nothing and the route answers 500.
LaunchScan(t) ==
    /\ Begins(t)
    /\ \E busy \in SUBSET Ports :
         LET avail == AvailablePorts(used_ports, busy) IN
         IF avail = {}
         THEN Finish(t, "start", "NoPortsAvailable", None, None)
         ELSE \E chosen \in avail :
                Goto(t, [Idle EXCEPT !.pc = "add", !.port = chosen])
    /\ UNCHANGED <<used_ports, container_map, engine, meetings, releases>>

\* self.used_ports.add(chosen_port); return chosen_port
LaunchAdd(t) ==
    /\ At(t, "add")
    /\ used_ports' = Claim(used_ports, thr[t].port)
    /\ Goto(t, [thr[t] EXCEPT !.pc = "run"])
    /\ UNCHANGED <<container_map, engine, meetings, releases>>

\* a rollback that forgets the reserved port
LaunchRollbackKeepsPort(used, p) == used

\* the except clause of start_meeting_bot: release the port, re-raise
LaunchRollback(used, p) == Discard(used, p)

\* an initial status taken from what the engine reports after run()
InitialStatusFromEngine == "running"

\* 'status': 'starting' of the new container_info and of the new row
InitialStatus == "starting"

\* client.containers.run raised: roll back, the route answers 500
LaunchFail(t) ==
    /\ At(t, "run")
    /\ used_ports' = LaunchRollback(used_ports, thr[t].port)
    /\ Finish(t, "start", "LaunchFailed", None, thr[t].port)
    /\ UNCHANGED <<container_map, engine, meetings, releases>>

\* client.containers.run returned a container: the engine publishes the host
\* port (which it refuses while another running container publishes it), the
\* manager records container_info, the route inserts the row of the calling
\* user; db.commit may raise, and then the route answers 500 with everything
\* else in place.  The meeting id of the row is identified with the
\* container id: both are fresh per launch.
LaunchOk(t) ==
    /\ At(t, "run")
    /\ Fresh # {}
    /\ ~ \E c \in Cids : engine[c].state = "running" /\ engine[c].port = thr[t].port
    /\ LET c == Min(Fresh)
           p == thr[t].port
       IN /\ engine' = [engine EXCEPT ![c] = [state |-> "running", port |-> p]]
          /\ container_map' = DictPut(container_map, c,
                                      [port |-> p, status |-> InitialStatus,
                                       docker_status |-> "none"])
          /\ \E u \in Users, committed \in BOOLEAN :
               IF committed
               THEN /\ meetings' = DictPut(meetings, c,
                           [user_id |-> u, container_id |-> c, port |-> p,
                            status |-> InitialStatus])
                    /\ Finish(t, "start", "ok", c, p)
               ELSE /\ meetings' = meetings
                    /\ Finish(t, "start", "PersistFailed", c, p)
    /\ UNCHANGED <<used_ports, releases>>

\* ------------------------------------------------------------- stop
\* a lookup of the row by its id alone
OwnedByAnyone(m, u) == m \in DOMAIN meetings

\* the row after a stop that forgets to clear the port
StoppedRowKeepsPort(row) ==
    [row EXCEPT !.status = "stopped", !.container_id = None]

\* the row a control route works on: filter(id == meeting_id, user_id == caller)
Owned(m, u) == m \in DOMAIN meetings /\ meetings[m].user_id = u

\* POST /meeting/{id}/stop up to the engine call of stop_meeting_bot: 404
\* without an owned row, 400 without a container id, False (500) when the
\* container is not tracked; else the port is read and the engine is asked
StopBegin(t) ==
    /\ Begins(t)
    /\ \E u \in Users, m \in Cids :
         IF ~ Owned(m, u) THEN Answer(t, "stop", "NotFound", u, m, None)
         ELSE IF meetings[m].container_id = None
              THEN Answer(t, "stop", "NotRunning", u, m, None)
         ELSE IF m \notin DOMAIN container_map
              THEN Answer(t, "stop", "StopFailed", u, m, None)
         ELSE Goto(t, [Idle EXCEPT !.pc = "stopping", !.user = u, !.cid = m,
                                   !.port = container_map[m].port])
    /\ UNCHANGED <<used_ports, container_map, engine, meetings, releases>>

\* the row after a successful stop
StoppedRow(row) ==
    [row EXCEPT !.status = "stopped", !.container_id = None, !.port = None]

\* containers.get(id) / container.stop(timeout=10) returned or raised.
\* Raised: False, nothing changed.  Returned: the port is discarded, then
\* `del self.container_map[id]` (a KeyError when the entry is gone by now:
\* False, with the port discarded); True makes the route write the row.
StopEnd(t) ==
    /\ At(t, "stopping")
    /\ LET c == thr[t].cid
           p == thr[t].port
           u == thr[t].user
       IN \E out \in InspectOutcomes(c) :
            IF out = "error"
            THEN /\ Answer(t, "stop", "StopFailed", u, c, p)
                 /\ UNCHANGED <<used_ports, container_map, engine, meetings, releases>>
            ELSE /\ engine' = [engine EXCEPT ![c].state = "exited"]
                 /\ used_ports' = Discard(used_ports, p)
                 /\ releases' = CountRelease(c)
                 /\ IF c \in DOMAIN container_map
                    THEN /\ container_map' = DictDel(container_map, c)
                         /\ meetings' = [meetings EXCEPT ![c] = StoppedRow(@)]
                         /\ Answer(t, "stop", "ok", u, c, p)
                    ELSE /\ UNCHANGED <<container_map, meetings>>
                         /\ Answer(t, "stop", "StopFailed", u, c, p)

\* ------------------------------------------------ get_meeting_bot_status
\* the status get_meeting_bot_status writes for a docker status
DomainStatus(docker_status, old) ==
    CASE docker_status = "running" -> "running"
      [] docker_status = "exited" -> "stopped"
      [] docker_status = "created" -> "starting"
      [] OTHER -> old

\* container_map after get_meeting_bot_status(c) saw `out`; the call returns
\* None for an untracked id and for an exception; else it writes
\* docker_status (and running, which is docker_status == 'running') and the
\* status into the tracked dict itself
StatusIsNone(c, out) == c \notin DOMAIN container_map \/ out = "error"

MapAfterStatus(c, out) ==
    IF StatusIsNone(c, out) THEN container_map
    ELSE [container_map EXCEPT ![c].status = DomainStatus(out, @),
                               ![c].docker_status = out]

\* ------------------------------------------------------------ listing
\* a query that leaves out the filter on the caller
RowsOfAnyone(u) == DOMAIN meetings

\* filter(User_google_meeting_data.user_id == current_user.id).all()
RowsOf(u) == {m \in DOMAIN meetings : meetings[m].user_id = u}

\* GET /my-meetings: the query for the caller's rows
ListBegin(t) ==
    /\ Begins(t)
    /\ \E u \in Users :
         Goto(t, [Idle EXCEPT !.pc = "listing", !.user = u, !.set = RowsOf(u)])
    /\ UNCHANGED <<used_ports, container_map, engine, meetings, releases>>

\* one pass of the loop over the rows: a row with a container id gets the
\* status and the port that get_meeting_bot_status returns, if it returns any
ListStep(t) ==
    /\ At(t, "listing")
    /\ thr[t].set # {}
    /\ LET m == Min(thr[t].set) IN
         /\ Goto(t, [thr[t] EXCEPT !.set = @ \ {m}])
         /\ IF meetings[m].container_id = None
            THEN UNCHANGED <<container_map, meetings>>
            ELSE \E out \in InspectOutcomes(m) :
                   /\ container_map' = MapAfterStatus(m, out)
                   /\ meetings' =
                        IF StatusIsNone(m, out) THEN meetings
                        ELSE [meetings EXCEPT
                                ![m].status = container_map'[m].status,
                                ![m].port = container_map'[m].port]
    /\ UNCHANGED <<used_ports, engine, releases>>

ListEnd(t) ==
    /\ At(t, "listing")
    /\ thr[t].set = {}
    /\ Finish(t, "list", "ok", None, None)
    /\ UNCHANGED <<used_ports, container_map, engine, meetings, releases>>

\* -------------------------------------------------- get_all_meeting_bots
\* GET /meeting-bots/status: list(self.container_map.keys())
GetAllBegin(t) ==
    /\ Begins(t)
    /\ Goto(t, [Idle EXCEPT !.pc = "getall", !.set = DOMAIN container_map])
    /\ UNCHANGED <<used_ports, container_map, engine, meetings, releases>>

\* one pass of the loop: a None status deletes the entry (a KeyError when it
\* is gone by now, which ends the call with []); the port stays claimed
GetAllStep(t) ==
    /\ At(t, "getall")
    /\ thr[t].set # {}
    /\ LET c == Min(thr[t].set) IN
         \E out \in InspectOutcomes(c) :
           IF ~ StatusIsNone(c, out)
           THEN /\ container_map' = MapAfterStatus(c, out)
                /\ Goto(t, [thr[t] EXCEPT !.set = @ \ {c}])
           ELSE IF c \in DOMAIN container_map
           THEN /\ container_map' = DictDel(container_map, c)
                /\ Goto(t, [thr[t] EXCEPT !.set = @ \ {c}])
           ELSE /\ container_map' = container_map
                /\ Finish(t, "status", "ok", None, None)
    /\ UNCHANGED <<used_ports, engine, meetings, releases>>

GetAllEnd(t) ==
    /\ At(t, "getall")
    /\ thr[t].set = {}
    /\ Finish(t, "status", "ok", None, None)
    /\ UNCHANGED <<used_ports, container_map, engine, meetings, releases>>

\* ----------------------------------------------- cleanup_dead_containers
\* POST /meeting-bots/cleanup: the iterator over self.container_map.items()
\* remembers the size of the dict (n) and how many entries it has left (k)
CleanupBegin(t) ==
    /\ Begins(t)
    /\ Goto(t, [Idle EXCEPT !.pc = "cleanup",
                            !.n = Cardinality(DOMAIN container_map),
                            !.k = Cardinality(DOMAIN container_map)])
    /\ UNCHANGED <<used_ports, container_map, engine, meetings, releases>>

\* whether cleanup takes the container for dead on this inspect result: its
\* status is 'exited', or the inspect raised whatever exception
IsDead(out) == out = "exited" \/ out = "error"

\* the entries the dict iterator has not passed: a dict keeps insertion
\* order, and container ids are handed out in increasing order
NotPassed(t) == {c \in DOMAIN container_map : c > thr[t].cid}

\* next() of the dict iterator raises RuntimeError when the dict changed
\* size, and when it finds an entry after it has yielded as many as the dict
\* had; the except clause of cleanup_dead_containers then returns 0
IteratorRaises(t) ==
    \/ Cardinality(DOMAIN container_map) # thr[t].n
    \/ NotPassed(t) # {} /\ thr[t].k = 0

\* one next() of the iterator and the body of the loop for the entry it
\* yields: the inspect, and for a dead container the release of its port
CleanupStep(t) ==
    /\ At(t, "cleanup")
    /\ IteratorRaises(t) \/ NotPassed(t) # {}
    /\ IF IteratorRaises(t)
       THEN /\ Finish(t, "cleanup", "ok", None, None)
            /\ UNCHANGED <<used_ports, releases>>
       ELSE LET c == Min(NotPassed(t)) IN
            \E out \in InspectOutcomes(c) :
              IF IsDead(out)
              THEN /\ Goto(t, [thr[t] EXCEPT !.cid = c, !.k = @ - 1, !.set = @ \cup {c}])
                   /\ used_ports' = Discard(used_ports, container_map[c].port)
                   /\ releases' = CountRelease(c)
              ELSE /\ Goto(t, [thr[t] EXCEPT !.cid = c, !.k = @ - 1])
                   /\ UNCHANGED <<used_ports, releases>>
    /\ UNCHANGED <<container_map, engine, meetings>>

\* one pass of the second loop, over dead_containers (dead: the entries
\* still to come, total: len(dead_containers), sofar: the entries deleted):
\* the entry is deleted if it is still tracked and the deletion is logged;
\* after the last pass len(dead_containers) is returned
RemovePass(t, dead, total, sofar) ==
    LET c == Min(dead)
        tracked == c \in DOMAIN container_map
        deleted == IF tracked THEN sofar + 1 ELSE sofar
    IN /\ container_map' = IF tracked THEN DictDel(container_map, c)
                                      ELSE container_map
       /\ IF dead = {c}
          THEN /\ thr' = [thr EXCEPT ![t] = Idle]
               /\ reply' = [NoReply EXCEPT !.op = "cleanup", !.ret = "ok",
                                           !.n = total, !.removed = deleted]
          ELSE Goto(t, [Idle EXCEPT !.pc = "removing", !.set = dead \ {c},
                                    !.n = total, !.k = deleted])

\* the iterator is exhausted: 0 is returned when nothing is dead, else the
\* second loop starts with its first pass
CleanupExhausted(t) ==
    /\ At(t, "cleanup")
    /\ ~ IteratorRaises(t) /\ NotPassed(t) = {}
    /\ IF thr[t].set = {}
       THEN /\ Finish(t, "cleanup", "ok", None, None)
            /\ container_map' = container_map
       ELSE RemovePass(t, thr[t].set, Cardinality(thr[t].set), 0)
    /\ UNCHANGED <<used_ports, engine, meetings, releases>>

\* a further pass of the second loop
CleanupRemove(t) ==
    /\ At(t, "removing")
    /\ RemovePass(t, thr[t].set, thr[t].n, thr[t].k)
    /\ UNCHANGED <<used_ports, engine, meetings, releases>>

\* ------------------------------------------------------ pause / resume
\* what the worker's control endpoint on host port p can answer
Responses(p) ==
    {"error"} \cup (IF \E c \in Cids : engine[c].state = "running" /\ engine[c].port = p
                    THEN {"200", "non200"} ELSE {})

\* the status a 200 makes the route write
Target(action) == IF action = "pause" THEN "paused" ELSE "running"

\* POST /meeting/{id}/pause|resume up to the awaited client.post: 404 without
\* an owned row, 400 without a container id; the answer the worker gives to
\* the request is fixed when it is sent, and is read when the handler resumes
ControlBegin(t) ==
    /\ Begins(t)
    /\ \E u \in Users, m \in Cids, action \in {"pause", "resume"} :
         IF ~ Owned(m, u) THEN Answer(t, action, "NotFound", u, m, None)
         ELSE IF meetings[m].container_id = None
              THEN Answer(t, action, "NotRunning", u, m, None)
         ELSE \E r \in Responses(meetings[m].port) :
                Goto(t, [Idle EXCEPT !.pc = "awaiting", !.op = action, !.user = u,
                                     !.cid = m, !.resp = r, !.n = 1])
    /\ UNCHANGED <<used_ports, container_map, engine, meetings, releases>>

\* a check that takes every answer of the worker for a success
ControlSucceededOnAnyAnswer(resp) == resp # "error"

\* `if response.status_code == 200`; a transport error raises before it
ControlSucceeded(resp) == resp = "200"

\* a handler that posts once more after a transport error or a timeout
PostsAgainOnError(resp, posts) == resp = "error" /\ posts < 2

\* whether the handler posts again after the answer resp to its posts-th
\* post: there is one client.post and no loop around it
PostsAgain(resp, posts) == FALSE

\* the handler resumes (thr[t].n counts its posts): a 200 writes the target
\* status, anything else fails (the HTTPException(400) of a non-200 is caught
\* and re-raised as a 500)
ControlEnd(t) ==
    /\ At(t, "awaiting")
    /\ LET m == thr[t].cid IN
         IF ControlSucceeded(thr[t].resp)
         THEN /\ meetings' = [meetings EXCEPT ![m].status = Target(thr[t].op)]
              /\ Answer(t, thr[t].op, "ok", thr[t].user, m, None)
         ELSE IF PostsAgain(thr[t].resp, thr[t].n)
         THEN /\ meetings' = meetings
              /\ \E r \in Responses(meetings[m].port) :
                   Goto(t, [thr[t] EXCEPT !.resp = r, !.n = @ + 1])
         ELSE /\ meetings' = meetings
              /\ Answer(t, thr[t].op, "ControlFailed", thr[t].user, m, None)
    /\ UNCHANGED <<used_ports, container_map, engine, releases>>

\* --------------------------------------------------- get_docker_manager
\* a getter that constructs a manager at every call
NeedsConstructionAlways(manager) == TRUE

\* if docker_manager is None
NeedsConstruction(manager) == manager = None

\* the first request to a Docker-backed route: get_docker_manager finds the
\* global unset and constructs DockerContainerManager().  docker.from_env()
\* raises when the engine cannot be reached: the global stays None and the
\* getter raises HTTPException(503).  Else the n-th manager, with an empty
\* used_ports and container_map, is bound to the global and the handler goes
\* on with it: the scan of a launch, the empty listing of the global status,
\* the empty pass of cleanup.  (Listing and stop reach the getter only for a
\* row with a container id, which a launch through the manager has written.)
FirstRequest(t) ==
    /\ Arrives(t)
    /\ NeedsConstruction(docker_manager)
    /\ \E op \in {"start", "status", "cleanup"} : \E reachable \in BOOLEAN :
         IF ~ reachable
         THEN /\ Finish(t, op, "BackendUnavailable", None, None)
              /\ UNCHANGED <<docker_manager, used_ports, container_map>>
         ELSE /\ docker_manager' = docker_manager + 1
              /\ used_ports' = {}
              /\ container_map' = << >>
              /\ IF op = "start"
                 THEN \E busy \in SUBSET Ports :
                        LET avail == AvailablePorts({}, busy) IN
                        IF avail = {}
                        THEN Finish(t, "start", "NoPortsAvailable", None, None)
                        ELSE \E chosen \in avail :
                               Goto(t, [Idle EXCEPT !.pc = "add", !.port = chosen])
                 ELSE Finish(t, op, "ok", None, None)
    /\ UNCHANGED <<engine, meetings, releases, pod, jobs>>

\* ------------------------------------------------- get_port_usage_stats
get_port_usage_stats ==
    [total_ports_available |-> PortHi - PortLo + 1,
     ports_in_use |-> Cardinality(used_ports),
     ports_available |-> (PortHi - PortLo + 1) - Cardinality(used_ports),
     active_containers |-> Cardinality(DOMAIN container_map)]

\* ------------------------------------------------------ HTTP answers
\* the status code of the answer ret of route op.  An HTTPException raised in a route passes
\* only an `except HTTPException: raise`: the 404 and the final 400 of pause,
\* resume and stop do; the HTTPException(400) of a non-200 is raised inside
\* the inner try and caught by its `except Exception`, which raises a 500;
\* the 503 of get_docker_manager passes in stop and is wrapped into a 500 by
\* the `except Exception` of start, listing, global status and cleanup
HttpStatus(op, ret) ==
    CASE ret = "ok" -> 200
      [] ret = "NotFound" -> 404
      [] ret = "NotRunning" -> 400
      [] ret = "BackendUnavailable" /\ op = "stop" -> 503
      [] OTHER -> 500

\* ------------------------------------------------------- environment
\* the container's process ends or the container is killed out-of-band; it
\* was started with remove=True, so the engine removes an exited container
Kill(c) ==
    /\ \E s \in {"exited", "gone"} :
         /\ engine[c].state = "running" \/ (engine[c].state = "exited" /\ s = "gone")
         /\ engine' = [engine EXCEPT ![c].state = s]
    /\ reply' = NoReply
    /\ UNCHANGED <<used_ports, container_map, meetings, thr, releases, started,
                   event_loop, pod, docker_manager, jobs>>

\* ----------------------- get_meeting_bot_status, statement by statement
\* Threads switch between any two statements.  get_meeting_bot_status works
\* on the tracked dict itself: the engine call, then the writes of
\* docker_status and running, then the write of status.
StatusBegin(t) ==
    /\ Begins(t)
    /\ \E c \in Cids :
         IF c \notin DOMAIN container_map
         THEN Finish(t, "bot_status", "none", c, None)
         ELSE \E out \in InspectOutcomes(c) :
                IF out = "error"
                THEN Finish(t, "bot_status", "none", c, None)
                ELSE Goto(t, [Idle EXCEPT !.pc = "observed", !.cid = c, !.resp = out])
    /\ UNCHANGED <<used_ports, container_map, engine, meetings, releases>>

\* container_info['docker_status'] = container_status (and 'running'); an
\* entry deleted by now is a dict that only this call still holds
StatusObserve(t) ==
    /\ At(t, "observed")
    /\ container_map' =
         IF thr[t].cid \in DOMAIN container_map
         THEN [container_map EXCEPT ![thr[t].cid].docker_status = thr[t].resp]
         ELSE container_map
    /\ Goto(t, [thr[t] EXCEPT !.pc = "mapping"])
    /\ UNCHANGED <<used_ports, engine, meetings, releases>>

\* the if/elif chain that writes container_info['status']; return container_info
StatusMap(t) ==
    /\ At(t, "mapping")
    /\ LET c == thr[t].cid IN
         /\ container_map' =
              IF c \in DOMAIN container_map
              THEN [container_map EXCEPT ![c].status = DomainStatus(thr[t].resp, @)]
              ELSE container_map
         /\ Finish(t, "bot_status", "ok", c, None)
    /\ UNCHANGED <<used_ports, engine, meetings, releases>>

\* the holder of a tracked dict (the container_info that start_meeting_bot
\* returned) reads its status, docker_status and port
ReadRecord(t) ==
    /\ Begins(t)
    /\ \E c \in DOMAIN container_map :
         reply' = [NoReply EXCEPT !.op = "read", !.cid = c,
                                  !.ret = container_map[c].status,
                                  !.docker_status = container_map[c].docker_status,
                                  !.port = container_map[c].port]
    /\ UNCHANGED <<used_ports, container_map, engine, meetings, thr, releases>>

\* ------------------------------------------------ POST /k8s/meeting
\* _build_job_spec: DYNAMIC_PORT of the worker, `sleep 12` before its entry
\* point, the startup probe of the selenium sidecar
JobPort == 3000
WorkerDelay == 12
StartupInitialDelay == 3
StartupPeriod == 5
StartupFailureThreshold == 24

\* no Job was created
NoPod ==
    [port |-> None, clock |-> 0, sidecar |-> "none", failures |-> 0,
     worker |-> "none"]

\* the pod of a Job just created: both containers start, the worker sleeps;
\* clock counts the seconds since then, failures the failed startup probes
NewPod ==
    [port |-> JobPort, clock |-> 0, sidecar |-> "starting", failures |-> 0,
     worker |-> "sleeping"]

\* a uuid: its first eight characters and the rest (payload.uuid or uuid4())
Uuids == (1..NumHeads) \X (1..NumTails)

\* job_meta.name = f"bot-job-{uuid_val[:8]}"
JobName(uuid_val) == <<"bot-job", uuid_val[1]>>

\* pod_meta.name = f"bot-{uuid_val[:8]}"
PodName(uuid_val) == <<"bot", uuid_val[1]>>

\* batch.create_namespaced_job: the API server refuses a name that exists in
\* the namespace (409 AlreadyExists) and may fail otherwise
CreateOutcomes(uuid_val) ==
    IF JobName(uuid_val) \in DOMAIN jobs THEN {"JobExists"}
    ELSE {"ok", "JobFailed"}

\* the namespace after request req created the Job of uuid_val
Created(uuid_val, req) ==
    DictPut(jobs, JobName(uuid_val), [uuid |-> uuid_val, by |-> req])

\* POST /k8s/meeting: the Job is built from the payload alone and created;
\* the answer names the job and the uuid; any failure of the creation is a
\* 500.  The pod whose containers the model follows is the first Job's.
JobCreate(t) ==
    /\ Arrives(t)
    /\ \E uuid_val \in Uuids : \E out \in CreateOutcomes(uuid_val) :
         /\ IF out = "ok"
            THEN /\ jobs' = Created(uuid_val, started')
                 /\ pod' = IF pod.sidecar = "none" THEN NewPod ELSE pod
            ELSE /\ jobs' = jobs
                 /\ pod' = pod
         /\ thr' = [thr EXCEPT ![t] = Idle]
         /\ reply' = [NoReply EXCEPT !.op = "job", !.ret = out,
                                     !.uuid = uuid_val, !.req = started']
    /\ UNCHANGED <<used_ports, container_map, engine, meetings, releases,
                   docker_manager>>

\* a loop that gives up at the first creation that fails
RemainingAfterFailureNone(n) == 0

\* the except clause of the loop body logs and the loop goes on
RemainingAfterFailure(n) == n - 1

\* POST /k8s/meetings/batch: created = [], for _ in range(int(payload.count))
BatchBegin(t) ==
    /\ Arrives(t)
    /\ \E count \in 1..MaxBatch :
         Goto(t, [Idle EXCEPT !.pc = "batch", !.op = "batch", !.n = count,
                              !.asked = count, !.req = started'])
    /\ UNCHANGED <<used_ports, container_map, engine, meetings, releases, pod,
                   docker_manager, jobs>>

\* thread t goes on in the loop of the batch
InBatch(t) ==
    /\ thr[t].pc = "batch"
    /\ Runs(t)
    /\ UNCHANGED <<used_ports, container_map, engine, meetings, releases,
                   started, event_loop, pod, docker_manager>>

\* one pass of the loop: a fresh uuid4, the Job built and created; the name
\* the API returns is appended, an exception is logged (k counts the passes)
BatchStep(t) ==
    /\ InBatch(t)
    /\ thr[t].n > 0
    /\ \E uuid_val \in Uuids : \E out \in CreateOutcomes(uuid_val) :
         IF out = "ok"
         THEN /\ jobs' = Created(uuid_val, thr[t].req)
              /\ Goto(t, [thr[t] EXCEPT
                             !.n = @ - 1, !.k = @ + 1,
                             !.created = Append(@, JobName(uuid_val))])
         ELSE /\ jobs' = jobs
              /\ Goto(t, [thr[t] EXCEPT
                             !.n = RemainingAfterFailure(@), !.k = @ + 1])

\* return {"message": "batch created", "count": len(created), "jobs": created}
BatchEnd(t) ==
    /\ InBatch(t)
    /\ thr[t].n = 0
    /\ jobs' = jobs
    /\ thr' = [thr EXCEPT ![t] = Idle]
    /\ reply' = [NoReply EXCEPT !.op = "batch", !.ret = "ok",
                                !.n = Len(thr[t].created),
                                !.jobs = thr[t].created, !.req = thr[t].req,
                                !.asked = thr[t].asked, !.tried = thr[t].k]

\* the startup probe is due: initial_delay_seconds, then every period_seconds
ProbeDue ==
    /\ pod.sidecar \in {"starting", "up"}
    /\ pod.clock = StartupInitialDelay + pod.failures * StartupPeriod

\* the worker's `sleep 12` ends now
WorkerDue == pod.worker = "sleeping" /\ pod.clock = WorkerDelay

\* what the pod does leaves the manager, the rows and the requests alone
PodStep ==
    /\ reply' = NoReply
    /\ UNCHANGED <<used_ports, container_map, engine, meetings, thr, releases,
                   started, event_loop, docker_manager, jobs>>

\* a second passes
Tick ==
    /\ pod.sidecar \in {"starting", "up"} \/ pod.worker = "sleeping"
    /\ ~ ProbeDue /\ ~ WorkerDue
    /\ pod' = [pod EXCEPT !.clock = @ + 1]
    /\ PodStep

\* selenium begins to answer GET /status on 4444
SidecarUp ==
    /\ pod.sidecar = "starting"
    /\ pod' = [pod EXCEPT !.sidecar = "up"]
    /\ PodStep

\* the kubelet runs the startup probe: a success makes the sidecar started
\* and ready, failure_threshold failures kill it
StartupProbe ==
    /\ ProbeDue
    /\ pod' = IF pod.sidecar = "up"
              THEN [pod EXCEPT !.sidecar = "ready"]
              ELSE [pod EXCEPT !.failures = @ + 1,
                               !.sidecar = IF pod.failures + 1 = StartupFailureThreshold
                                           THEN "failed" ELSE "starting"]
    /\ PodStep

\* `sleep 12; exec bun run index.ts`: the entry point of the worker starts
WorkerStart ==
    /\ WorkerDue
    /\ pod' = [pod EXCEPT !.worker = "running"]
    /\ PodStep

\* ------------------------------------------------------ specification
\* DockerContainerManager.__init__ and an empty table, no request in progress
InitState ==
    /\ used_ports = {}
    /\ container_map = << >>
    /\ engine = [c \in Cids |-> [state |-> "none", port |-> None]]
    /\ meetings = << >>
    /\ thr = [t \in Threads |-> Idle]
    /\ reply = NoReply
    /\ releases = [c \in Cids |-> 0]
    /\ started = 0
    /\ pod = NoPod
    /\ jobs = << >>

\* the manager exists: test_dynamic_ports.py constructs it first, the routes
\* at their first request
Init == InitState /\ event_loop = FALSE /\ docker_manager = 1

InitSerial == InitState /\ event_loop = TRUE /\ docker_manager = 1

\* the process has started and no request has come: the global is unset
InitManager == InitState /\ event_loop = TRUE /\ docker_manager = None

Next ==
    \/ \E t \in Threads :
         \/ LaunchScan(t)
         \/ LaunchAdd(t)
         \/ LaunchFail(t)
         \/ LaunchOk(t)
         \/ StopBegin(t)
         \/ StopEnd(t)
         \/ ListBegin(t)
         \/ ListStep(t)
         \/ ListEnd(t)
         \/ GetAllBegin(t)
         \/ GetAllStep(t)
         \/ GetAllEnd(t)
         \/ CleanupBegin(t)
         \/ CleanupStep(t)
         \/ CleanupExhausted(t)
         \/ CleanupRemove(t)
         \/ ControlBegin(t)
         \/ ControlEnd(t)
    \/ \E c \in Cids : Kill(c)

\* the threads of test_dynamic_ports.py: every interleaving of the steps
Spec == Init /\ [][Next]_vars

\* the FastAPI event loop: a handler runs alone until it returns or awaits
SpecSerial == InitSerial /\ [][Next]_vars

\* threads that switch between the statements of get_meeting_bot_status,
\* next to launches, stops and holders of the dicts that launches returned
NextStatements ==
    \/ \E t \in Threads :
         \/ LaunchScan(t)
         \/ LaunchAdd(t)
         \/ LaunchFail(t)
         \/ LaunchOk(t)
         \/ StopBegin(t)
         \/ StopEnd(t)
         \/ StatusBegin(t)
         \/ StatusObserve(t)
         \/ StatusMap(t)
         \/ ReadRecord(t)
    \/ \E c \in Cids : Kill(c)

SpecStatements == Init /\ [][NextStatements]_vars

\* the Job of POST /k8s/meeting and the containers of its pod
NextPod ==
    \/ \E t \in Threads : JobCreate(t)
    \/ Tick
    \/ SidecarUp
    \/ StartupProbe
    \/ WorkerStart

SpecPod == Init /\ [][NextPod]_vars

\* the routes from the start of the process: get_docker_manager returns the
\* manager once it is bound
NextManager ==
    \/ \E t \in Threads : FirstRequest(t)
    \/ ~ NeedsConstruction(docker_manager) /\ Next

SpecManager == InitManager /\ [][NextManager]_vars

\* the Jobs of POST /k8s/meeting and POST /k8s/meetings/batch
NextJobs ==
    \E t \in Threads :
      \/ JobCreate(t)
      \/ BatchBegin(t)
      \/ BatchStep(t)
      \/ BatchEnd(t)

SpecJobs == InitSerial /\ [][NextJobs]_vars

\* ------------------------------------------------------------ claims
Active == {"starting", "running", "paused"}
Terminal == {"stopped", "failed"}

\* C1: no port is held by two workers whose status is Starting, Running or
\* Paused, neither among the tracked containers nor among the meeting rows
PortHeldByOneWorker ==
    /\ \A a, b \in DOMAIN container_map :
         (/\ a # b
          /\ container_map[a].status \in Active
          /\ container_map[b].status \in Active)
         => container_map[a].port # container_map[b].port
    /\ \A a, b \in DOMAIN meetings :
         (/\ a # b
          /\ meetings[a].status \in Active
          /\ meetings[b].status \in Active
          /\ meetings[a].port # None)
         => meetings[a].port # meetings[b].port

\* C2: get_available_port is atomic: no two callers hold the same port from
\* it at once, and the claimed ports lie in the configured range
AllocateAtomic ==
    /\ \A a, b \in Threads :
         (a # b /\ thr[a].pc = "run" /\ thr[b].pc = "run")
         => thr[a].port # thr[b].port
    /\ used_ports \subseteq Ports
    /\ Cardinality(used_ports) <= NumPorts

\* a launched worker that is tracked no more and that no stop still works on
WorkerGone(c) ==
    /\ engine[c].state # "none"
    /\ c \notin DOMAIN container_map
    /\ \A t \in Threads : ~ (thr[t].pc = "stopping" /\ thr[t].cid = c)

\* C3: the port of a launched worker is released exactly once: never twice,
\* and once when the worker is gone
ReleasedExactlyOnce ==
    \A c \in Cids :
      /\ releases[c] <= 1
      /\ WorkerGone(c) => releases[c] = 1

\* C4: a terminal status is sticky: no step takes a tracked container or a
\* meeting row from Stopped or Failed back to a non-terminal status
TerminalSticky ==
    [][/\ \A m \in DOMAIN meetings :
            meetings[m].status \in Terminal => meetings'[m].status \in Terminal
       /\ \A c \in DOMAIN container_map \cap DOMAIN container_map' :
            container_map[c].status \in Terminal
            => container_map'[c].status \in Terminal]_vars

\* C5: a failing client.containers.run releases the port of that launch and
\* creates neither a tracked entry nor a row
LaunchFailureRollsBack ==
    [][(reply'.op = "start" /\ reply'.ret = "LaunchFailed")
       => /\ reply'.port \notin used_ports'
          /\ container_map' = container_map
          /\ meetings' = meetings]_vars

\* a launch has just failed in the engine, next to a tracked worker
LaunchFailureSeen ==
    /\ reply.op = "start" /\ reply.ret = "LaunchFailed"
    /\ reply.port \in Ports /\ reply.port \notin used_ports
    /\ DOMAIN container_map # {}

\* C6: whenever POST /meeting-url answers an error, nothing of the request is
\* left: no claimed port, no tracked entry, no running container
StartErrorLeavesNothing ==
    (reply.op = "start" /\ reply.ret # "ok")
    => /\ reply.port # None => reply.port \notin used_ports
       /\ reply.cid # None =>
            /\ reply.cid \notin DOMAIN container_map
            /\ engine[reply.cid].state # "running"

\* thread t's listing takes up row m in this step
ListsRow(t, m) ==
    /\ thr[t].pc = "listing" /\ thr[t].set # {}
    /\ m = Min(thr[t].set)
    /\ thr'[t].pc = "listing" /\ thr'[t].set = thr[t].set \ {m}

\* thread t's cleanup deletes the entry of c in this step
RemovesEntry(t, c) ==
    /\ thr[t].pc \in {"cleanup", "removing"} /\ thr'[t] # thr[t]
    /\ c \in DOMAIN container_map /\ c \notin DOMAIN container_map'

\* C7: once the engine no longer knows a worker's container, the listing of
\* its owner and the cleanup record the worker as Failed and free its port
ReconcileAfterKill ==
    [][\A t \in Threads, m \in DOMAIN meetings :
         (/\ ListsRow(t, m) \/ RemovesEntry(t, m)
          /\ meetings[m].container_id # None
          /\ engine[m].state = "gone")
         => /\ meetings'[m].status = "failed"
            /\ meetings[m].port \notin used_ports']_vars

\* a request for a launch arrives in this step
LaunchArrives ==
    /\ started' = started + 1
    /\ \/ reply'.op = "start"
       \/ \E t \in Threads : thr[t].pc = "idle" /\ thr'[t].pc = "add"

\* C8: the tracked workers hold pairwise distinct ports, so that as many
\* launches as there are ports succeed with distinct ports; a launch that
\* arrives while every port is claimed fails with NoPortsAvailable and
\* leaves used_ports and container_map as they are
LaunchesFillRange ==
    /\ [](\A a, b \in DOMAIN container_map :
            a # b => container_map[a].port # container_map[b].port)
    /\ [][(LaunchArrives /\ used_ports = Ports)
          => /\ reply'.op = "start" /\ reply'.ret = "NoPortsAvailable"
             /\ used_ports' = used_ports
             /\ container_map' = container_map]_vars

\* C9: cleanup takes for dead, releasing its port and dropping its entry,
\* only a worker whose container is not running
CleanupOnlyConfirmedGone ==
    \A t \in Threads :
      thr[t].pc \in {"cleanup", "removing"}
      => \A c \in thr[t].set : engine[c].state # "running"

\* C10: the count cleanup returns is the number of entries it removed
CleanupCountExact ==
    reply.op = "cleanup" => reply.n = reply.removed

\* the caller of the request answered in this step owns the row it names
AnsweredToOwner ==
    /\ reply'.cid \in DOMAIN meetings
    /\ meetings[reply'.cid].user_id = reply'.user

\* the manager's state, the engine and the rows are as they were
NothingChanged == UNCHANGED <<used_ports, container_map, engine, meetings>>

\* C11: a stop of a worker whose container the engine no longer knows is a
\* success: the route answers ok, the port is released, the entry is dropped
\* and the row is Stopped
StopOfGoneSucceeds ==
    [][(/\ reply'.op = "stop"
        /\ reply'.ret \in {"ok", "StopFailed"}
        /\ engine[reply'.cid].state = "gone")
       => /\ reply'.ret = "ok"
          /\ reply'.cid \notin DOMAIN container_map'
          /\ meetings'[reply'.cid].status = "stopped"
          /\ meetings[reply'.cid].port \notin used_ports']_vars

\* C12: the step of a listing or of the global status that resolves a
\* tracked worker to Stopped, which was not recorded before, releases the
\* worker's port
TerminalResolutionReleasesPort ==
    [][\A c \in DOMAIN container_map \cap DOMAIN container_map' :
         (container_map[c].status # "stopped" /\ container_map'[c].status = "stopped")
         => container_map[c].port \notin used_ports']_vars

\* C13: a step that removes an entry from container_map leaves the port of
\* the removed worker unclaimed
RemovalReleasesPort ==
    [][\A c \in DOMAIN container_map :
         c \notin DOMAIN container_map' => container_map[c].port \notin used_ports']_vars

\* thread t is in a reconciliation batch and takes a step of it
Reconciles(t) ==
    /\ thr[t].pc \in {"listing", "getall", "cleanup", "removing"}
    /\ thr'[t] # thr[t]

\* C14: a reconciliation batch keeps the entry, the port and the claim on the
\* port of a worker whose container runs, whatever its query answers: a
\* query that fails is skipped
FailedQuerySkipped ==
    [][\A c \in DOMAIN container_map :
         (engine[c].state = "running" /\ \E t \in Threads : Reconciles(t))
         => /\ c \in DOMAIN container_map'
            /\ container_map'[c].port = container_map[c].port
            /\ container_map[c].port \in used_ports
                 => container_map[c].port \in used_ports']_vars

\* C15: a pause or resume whose request got a non-200 answer or failed in
\* transport answers a failure and leaves every recorded status as it was
ControlFailureKeepsStatus ==
    [][\A t \in Threads :
         (thr[t].pc = "awaiting" /\ thr'[t].pc = "idle" /\ thr[t].resp # "200")
         => /\ reply'.op = thr[t].op /\ reply'.ret = "ControlFailed"
            /\ meetings' = meetings
            /\ container_map' = container_map]_vars

\* a pause of a worker still recorded as Starting has just failed
ControlFailureSeen ==
    /\ reply.op = "pause" /\ reply.ret = "ControlFailed"
    /\ meetings[reply.cid].status = "starting"

\* C16: a stop of a meeting id that does not exist or that the caller does not
\* own answers NotFound and changes nothing; no stop is in progress for a
\* caller who does not own the row
StopOfForeignIsNotFound ==
    /\ [](\A t \in Threads :
            thr[t].pc = "stopping" => meetings[thr[t].cid].user_id = thr[t].user)
    /\ [][(reply'.op = "stop" /\ ~ AnsweredToOwner)
          => reply'.ret = "NotFound" /\ NothingChanged]_vars

\* a stop of a tracked worker by a user who does not own it was refused
StopOfForeignSeen ==
    /\ reply.op = "stop" /\ reply.ret = "NotFound"
    /\ reply.cid \in DOMAIN meetings /\ meetings[reply.cid].user_id # reply.user
    /\ reply.cid \in DOMAIN container_map

\* C17: a stop, by its owner, of a worker recorded as Stopped fails and has
\* no effect: no port is released, no entry dropped, no container stopped
StopOfStoppedIsNoOp ==
    [][(/\ reply'.op = "stop"
        /\ AnsweredToOwner
        /\ meetings[reply'.cid].status = "stopped")
       => reply'.ret # "ok" /\ NothingChanged]_vars

\* the transitions of the worker state machine
Machine ==
    {<<"starting", "running">>, <<"running", "paused">>, <<"paused", "running">>,
     <<"starting", "stopped">>, <<"running", "stopped">>, <<"paused", "stopped">>,
     <<"starting", "failed">>, <<"running", "failed">>, <<"paused", "failed">>}

\* C18: the recorded status of a worker changes only along the state machine
StatusFollowsMachine ==
    [][\A m \in DOMAIN meetings :
         meetings'[m].status # meetings[m].status
         => <<meetings[m].status, meetings'[m].status>> \in Machine]_vars

\* C19: a 200 to pause records Paused, a 200 to resume records Running; a
\* successful stop records Stopped, clears the recorded port, releases the
\* port and drops the entry
ControlSuccessSetsTarget ==
    [][/\ \A t \in Threads :
            (thr[t].pc = "awaiting" /\ thr'[t].pc = "idle" /\ thr[t].resp = "200")
            => /\ reply'.ret = "ok"
               /\ thr[t].op = "pause" => meetings'[thr[t].cid].status = "paused"
               /\ thr[t].op = "resume" => meetings'[thr[t].cid].status = "running"
       /\ (reply'.op = "stop" /\ reply'.ret = "ok")
          => /\ meetings'[reply'.cid].status = "stopped"
             /\ meetings'[reply'.cid].port = None
             /\ reply'.port \notin used_ports'
             /\ reply'.cid \notin DOMAIN container_map']_vars

\* a stop has just succeeded while another worker is recorded as Paused
ControlSuccessSeen ==
    /\ reply.op = "stop" /\ reply.ret = "ok"
    /\ meetings[reply.cid].status = "stopped"
    /\ \E m \in DOMAIN meetings : meetings[m].status = "paused"

\* C20: a listing works on rows of its caller only; no pause, resume or stop
\* is in progress for a caller who does not own the row; a pause, resume or
\* stop of a row the caller does not own answers NotFound and changes nothing
ScopedToOwner ==
    /\ [](\A t \in Threads :
            /\ thr[t].pc = "listing"
                 => \A m \in thr[t].set : meetings[m].user_id = thr[t].user
            /\ thr[t].pc \in {"awaiting", "stopping"}
                 => meetings[thr[t].cid].user_id = thr[t].user)
    /\ [][(reply'.op \in {"pause", "resume", "stop"} /\ ~ AnsweredToOwner)
          => reply'.ret = "NotFound" /\ NothingChanged]_vars

\* a listing is in progress for a user while another user has a row, and a
\* pause by a user who does not own the worker was refused
ScopedToOwnerSeen ==
    /\ reply.op = "pause" /\ reply.ret = "NotFound"
    /\ reply.cid \in DOMAIN meetings /\ meetings[reply.cid].user_id # reply.user
    /\ \E t \in Threads :
         /\ thr[t].pc = "listing" /\ thr[t].set # {}
         /\ \E m \in DOMAIN meetings : meetings[m].user_id # thr[t].user

\* C21: whatever the probe reports, the port get_available_port picks is one
\* that the claimed-set it scanned does not hold, and it lies in the range
ProbeIsAdvisory ==
    [][\A t \in Threads :
         (thr[t].pc = "idle" /\ thr'[t].pc = "add")
         => thr'[t].port \in Ports \ used_ports]_vars

\* a port was picked while another port is claimed and held by a running worker
ProbeIsAdvisorySeen ==
    \E t \in Threads :
      /\ thr[t].pc = "add"
      /\ thr[t].port \notin used_ports
      /\ \E c \in DOMAIN container_map :
           container_map[c].port \in used_ports /\ engine[c].state = "running"

\* C22: right after a successful launch the tracked entry and the row of the
\* worker both have status 'starting', whatever the engine reports
InitialStatusIsStarting ==
    [][(reply'.op = "start" /\ reply'.ret = "ok")
       => /\ container_map'[reply'.cid].status = "starting"
          /\ meetings'[reply'.cid].status = "starting"]_vars

\* a launch has just succeeded and the engine has the container running
InitialStatusSeen ==
    /\ reply.op = "start" /\ reply.ret = "ok"
    /\ engine[reply.cid].state = "running"
    /\ container_map[reply.cid].status = "starting"
    /\ meetings[reply.cid].status = "starting"

\* C27: a pause or resume posts once: while it awaits there has been one
\* post, and the step that takes up a transport error or a timeout ends the
\* request with a failure
ControlPostsOnce ==
    /\ [](\A t \in Threads : thr[t].pc = "awaiting" => thr[t].n = 1)
    /\ [][\A t \in Threads :
            (thr[t].pc = "awaiting" /\ thr'[t] # thr[t] /\ thr[t].resp = "error")
            => /\ thr'[t].pc = "idle"
               /\ reply'.op = thr[t].op /\ reply'.ret = "ControlFailed"]_vars

\* a resume of a worker whose container is gone has just failed
ControlPostsOnceSeen ==
    /\ reply.op = "resume" /\ reply.ret = "ControlFailed"
    /\ engine[reply.cid].state = "gone"

\* C28: a release of a port that is free changes nothing, and a second
\* release leaves what the first left; the step that releases, on behalf of a
\* worker, a port that is free already leaves used_ports as it is
ReleaseIdempotent ==
    /\ [](\A p \in Ports :
            /\ p \notin used_ports => Discard(used_ports, p) = used_ports
            /\ Discard(Discard(used_ports, p), p) = Discard(used_ports, p))
    /\ [][\A c \in Cids :
            (releases'[c] # releases[c] /\ engine[c].port \notin used_ports)
            => used_ports' = used_ports]_vars

\* the port of the only worker launched was released twice: by a cleanup and
\* by a stop
ReleasedTwiceSeen ==
    /\ releases[1] = 2
    /\ engine[2].state = "none"
    /\ used_ports = {}

\* C29: a listing that finds the container of a Paused worker running leaves
\* the recorded status Paused
ListingKeepsPaused ==
    [][\A t \in Threads, m \in DOMAIN meetings :
         (/\ ListsRow(t, m)
          /\ meetings[m].status = "paused"
          /\ engine[m].state = "running")
         => meetings'[m].status = "paused"]_vars

\* C30: when no cleanup is under way, the port of every tracked worker is in
\* used_ports
TrackedPortIsClaimed ==
    (\A t \in Threads : thr[t].pc \notin {"cleanup", "removing"})
    => \A c \in DOMAIN container_map : container_map[c].port \in used_ports

\* C23: a reader of a tracked record sees a snapshot: the status it reads is
\* the one that belongs to the docker_status it reads
ReadsSeeSnapshot ==
    reply.op = "read"
    => /\ reply.docker_status = "running" => reply.ret = "running"
       /\ reply.docker_status = "exited" => reply.ret = "stopped"

\* the workers launched so far
Launched == {c \in Cids : engine[c].state # "none"}

AllIdle == \A t \in Threads : thr[t].pc = "idle"

\* C24: once concurrent launches have completed and before any stop,
\* ports_in_use and active_containers both equal the number of launches that
\* succeeded; once every launched worker was stopped, both are 0
StatsMatchLaunches ==
    /\ (AllIdle /\ \A c \in Cids : releases[c] = 0)
       => /\ Cardinality(used_ports) = Cardinality(Launched)
          /\ Cardinality(DOMAIN container_map) = Cardinality(Launched)
    /\ (AllIdle /\ Launched # {} /\ \A c \in Launched :
                                      c \in DOMAIN meetings /\ meetings[c].status = "stopped")
       => /\ Cardinality(used_ports) = 0
          /\ Cardinality(DOMAIN container_map) = 0

\* C25: a Job created by POST /k8s/meeting has a port of the allocator: the
\* answer carries it, it is claimed, it is the worker's DYNAMIC_PORT, and a
\* tracked entry holds it
JobUsesAllocator ==
    [][(reply'.op = "job" /\ reply'.ret = "ok")
       => /\ reply'.port \in Ports
          /\ reply'.port \in used_ports'
          /\ pod'.port = reply'.port
          /\ \E c \in DOMAIN container_map' : container_map'[c].port = reply'.port]_vars

\* C26: the worker's entry point runs only once the sidecar is ready
WorkerWaitsForSidecar ==
    pod.worker = "running" => pod.sidecar = "ready"

\* C31: a pause or resume is posted only to a port that the target worker
\* holds: the worker is tracked with that port and the port is claimed
ControlTargetsHeldPort ==
    [][\A t \in Threads :
         (thr[t].pc = "idle" /\ thr'[t].pc = "awaiting")
         => LET m == thr'[t].cid IN
              /\ meetings[m].port \in used_ports
              /\ m \in DOMAIN container_map
              /\ container_map[m].port = meetings[m].port]_vars

\* C32: stop_meeting_bot returns False only with used_ports and container_map
\* untouched, and True only with the container stopped, the port released
\* and the entry removed
StopReturnIsFaithful ==
    [][/\ (reply'.op = "stop" /\ reply'.ret = "StopFailed")
          => used_ports' = used_ports /\ container_map' = container_map
       /\ (reply'.op = "stop" /\ reply'.ret = "ok")
          => /\ reply'.port \notin used_ports'
             /\ reply'.cid \notin DOMAIN container_map'
             /\ engine'[reply'.cid].state # "running"]_vars

\* C35: a non-200 answer of the worker to a pause or resume reaches the
\* caller as HTTP 400, a transport error or timeout as HTTP 500
Non200IsBadRequest ==
    [][\A t \in Threads :
         (thr[t].pc = "awaiting" /\ thr'[t].pc = "idle")
         => /\ thr[t].resp = "non200"
                 => HttpStatus(reply'.op, reply'.ret) = 400
            /\ thr[t].resp = "error"
                 => HttpStatus(reply'.op, reply'.ret) = 500]_vars

\* C37: the port statistics add up: ports_in_use + ports_available is
\* total_ports_available, and ports_available is never negative
StatsAddUp ==
    LET stats == get_port_usage_stats IN
      /\ stats.ports_in_use + stats.ports_available
           = stats.total_ports_available
      /\ stats.ports_available >= 0

\* C37 witness: the global status route answers with every port of the range
\* in use
StatsOfFullRangeSeen ==
    /\ reply.op = "status" /\ reply.ret = "ok"
    /\ used_ports = Ports
    /\ get_port_usage_stats.ports_available = 0

\* the job names of the namespace that request req created
CreatedBy(req) == {j \in DOMAIN jobs : jobs[j].by = req}

\* C36: a batch launch makes exactly the requested number of attempts, a
\* failed creation does not stop the remaining ones, and the returned count
\* is the number of Jobs the call created, the length of the returned list
\* and at most the requested count
BatchCountIsExact ==
    reply.op = "batch"
    => /\ reply.tried = reply.asked
       /\ reply.n = Len(reply.jobs)
       /\ reply.n = Cardinality(CreatedBy(reply.req))
       /\ {reply.jobs[i] : i \in 1..Len(reply.jobs)} = CreatedBy(reply.req)
       /\ reply.n <= reply.asked

\* C36 witness: a batch of two of which one creation failed and one succeeded
BatchWithFailureSeen ==
    /\ reply.op = "batch"
    /\ reply.asked = 2 /\ reply.tried = 2 /\ reply.n = 1
    /\ Cardinality(CreatedBy(reply.req)) = 1

\* C38: a launch whose uuid differs from the uuid of a Job of the namespace
\* has built a job name and a pod name that differ from that Job's
DistinctUuidsDistinctNames ==
    reply.op = "job"
    => \A j \in DOMAIN jobs :
         jobs[j].uuid # reply.uuid
         => /\ JobName(jobs[j].uuid) # JobName(reply.uuid)
            /\ PodName(jobs[j].uuid) # PodName(reply.uuid)

\* C33: one manager for all requests: at most one construction succeeds, the
\* global keeps the manager it has (no later construction binds another one
\* with an empty used_ports and container_map), and a failed construction
\* leaves the global unset
ManagerIsShared ==
    /\ [](docker_manager \in {None, 1})
    /\ [][/\ docker_manager # None => docker_manager' = docker_manager
          /\ reply'.ret = "BackendUnavailable" => docker_manager' = None]_vars

\* C33 witness: the requests that followed the construction launched two
\* workers through the one manager
ManagerSharedSeen ==
    /\ docker_manager = 1
    /\ started = MaxRequests
    /\ Cardinality(DOMAIN container_map) = 2
    /\ Cardinality(used_ports) = 2

\* C34: with the engine out of reach every Docker-backed route answers 503
\* and creates no port, entry, row or manager
UnavailableIs503 ==
    [][reply'.ret = "BackendUnavailable"
       => /\ HttpStatus(reply'.op, reply'.ret) = 503
          /\ UNCHANGED <<used_ports, container_map, meetings, docker_manager>>]_vars

====
